---- MODULE Spec2Model ----
(***************************************************************************)
(* A model of the streaming GLIF parser of src/src/lib.rs: the driver      *)
(* loop of parse_glif, the element builders it calls, the identifier       *)
(* registry, and the part of the XML reader the driver depends on (the     *)
(* stack of open elements, read_text and read_to_end).                     *)
(*                                                                         *)
(* The input document is not fixed in advance: every step draws the next   *)
(* event the tokenizer yields from the finite alphabet Events, so a        *)
(* behaviour of the model is the parse of one document, event by event.    *)
(*                                                                         *)
(* Conventions.  Option<T> is a sequence of length at most one: <<>> is    *)
(* None and <<v>> is Some(v).  Numbers (f64 in the source) are counted in  *)
(* tenths, so 3601 stands for 360.1.  Attribute values are strings, as     *)
(* the tokenizer hands them over; the primitive parsers turn them into     *)
(* values.                                                                 *)
(***************************************************************************)
EXTENDS Integers, Sequences, FiniteSets, TLC

\* ------------------------------------------------------------------ bounds
\* Iterations of the driver loop of parse_glif in one parse, that is the
\* events the driver itself pulls (read_text and read_to_end pull more).
MaxSteps == 7
\* Depth of the reader's stack of open elements.
MaxDepth == 2
\* Length of each of codepoints, anchors and guidelines.
MaxItems == 2

\* --------------------------------------------------------------- options
None == << >>
Some(v) == << v >>
IsSome(o) == Len(o) = 1
Unwrap(o) == o[1]

\* One attribute: key and (unescaped, decoded) value.
Attr(k, v) == << k, v >>
Key(a) == a[1]
Value(a) == a[2]

\* ---------------------------------------------------- primitive parsers
\* str::parse::<f64>() on the texts the model uses, in tenths; None is the
\* ParseFloatError.
ParseFloat(value) ==
    CASE value = "0"     -> Some(0)
      [] value = "1"     -> Some(10)
      [] value = "-12"   -> Some(-120)
      [] value = "30"    -> Some(300)
      [] value = "360"   -> Some(3600)
      [] value = "360.1" -> Some(3601)
      [] value = "-0.1"  -> Some(-1)
      [] value = "74"    -> Some(740)
      [] value = "197"   -> Some(1970)
      [] value = "268"   -> Some(2680)
      [] value = "123"   -> Some(1230)
      [] OTHER           -> None

\* parse_number: Ok(number) or Err(InvalidNumber).
parse_number(value) ==
    LET n == ParseFloat(value)
    IN  IF IsSome(n) THEN [err |-> "", val |-> Unwrap(n)]
        ELSE [err |-> "InvalidNumber", val |-> 0]

\* str::parse::<u32>() on the texts the model uses.
ParseU32(value) ==
    CASE value = "0"   -> Some(0)
      [] value = "1"   -> Some(1)
      [] value = "123" -> Some(123)
      [] OTHER         -> None

\* u32::from_str_radix(value, 16) on the texts the model uses.
FromStrRadix16(value) ==
    CASE value = "002E"   -> Some(46)
      [] value = "04D2"   -> Some(1234)
      [] value = "D800"   -> Some(55296)
      [] value = "110000" -> Some(1114112)
      [] OTHER            -> None

\* char::try_from(u32): a Unicode scalar value is at most 0x10FFFF and no
\* surrogate (0xD800..0xDFFF).
CharTryFrom(i) ==
    IF i <= 1114111 /\ ~(i >= 55296 /\ i <= 57343) THEN Some(i) ELSE None

\* parse_codepoint: Ok(char) or Err(InvalidCodepoint).
parse_codepoint(value) ==
    LET i == FromStrRadix16(value)
    IN  IF ~IsSome(i) THEN [err |-> "InvalidCodepoint", val |-> 0]
        ELSE LET c == CharTryFrom(Unwrap(i))
             IN  IF IsSome(c) THEN [err |-> "", val |-> Unwrap(c)]
                 ELSE [err |-> "InvalidCodepoint", val |-> 0]

\* parse_color: "r,g,b,a" of four floats, or Err(InvalidColor).
parse_color(value) ==
    CASE value = "1,0,0,1"   -> [err |-> "", val |-> << 10, 0, 0, 10 >>]
      [] value = "1,0,0,0.5" -> [err |-> "", val |-> << 10, 0, 0, 5 >>]
      [] OTHER               -> [err |-> "InvalidColor", val |-> << >>]

\* -------------------------------------------------- identifier registry
\* Identifier::new: at most 100 bytes, each in 0x20..0x7E.  The one text
\* of the model with a byte outside that range is "bad\n".
IdentifierNew(value) ==
    IF Len(value) <= 100 /\ value # "bad\n" THEN Some(value) ELSE None

\* parse_identifier with the syntax check first and the format check
\* second.
parse_identifierSyntaxFirst(value, identifier_set, glif_format) ==
    LET id == IdentifierNew(value)
    IN  IF ~IsSome(id)
        THEN [err |-> "BadIdentifier", val |-> "", ids |-> identifier_set]
        ELSE IF glif_format = "V1"
        THEN [err |-> "UnexpectedAttribute", val |-> "",
              ids |-> identifier_set]
        ELSE IF Unwrap(id) \in identifier_set
        THEN [err |-> "DuplicateIdentifier", val |-> "",
              ids |-> identifier_set]
        ELSE [err |-> "", val |-> Unwrap(id),
              ids |-> identifier_set \cup {Unwrap(id)}]

\* parse_identifier: the format check, the syntax check, the insertion.
\* ids is the registry after the call.
parse_identifier(value, identifier_set, glif_format) ==
    IF glif_format = "V1"
    THEN [err |-> "UnexpectedAttribute", val |-> "", ids |-> identifier_set]
    ELSE LET id == IdentifierNew(value)
         IN  IF ~IsSome(id)
             THEN [err |-> "BadIdentifier", val |-> "", ids |-> identifier_set]
             ELSE IF Unwrap(id) \in identifier_set
             THEN [err |-> "DuplicateIdentifier", val |-> "",
                   ids |-> identifier_set]
             ELSE [err |-> "", val |-> Unwrap(id),
                   ids |-> identifier_set \cup {Unwrap(id)}]

\* ------------------------------------------------------ element builders
\* Glyph::new_named(name): the record the glyph header builder starts from.
GlyphNewNamed(name) ==
    [name |-> name, format |-> "V2", format_minor |-> 0,
     height |-> 0, width |-> 0,
     codepoints |-> << >>, anchors |-> << >>, guidelines |-> << >>,
     note |-> None, lib |-> {}, image |-> None]

\* The attribute loop of parse_glyph from attribute i on; acc holds the
\* three locals and the error that ended the loop, if any.
RECURSIVE GlyphAttrLoop(_, _, _)
GlyphAttrLoop(attributes, i, acc) ==
    IF i > Len(attributes) THEN acc
    ELSE LET key == Key(attributes[i])
             value == Value(attributes[i])
         IN  IF key = "name"
             THEN GlyphAttrLoop(attributes, i + 1,
                                [acc EXCEPT !.name = acc.name \o value])
             ELSE IF key = "format"
             THEN IF value = "1"
                  THEN GlyphAttrLoop(attributes, i + 1,
                                     [acc EXCEPT !.format = Some("V1")])
                  ELSE IF value = "2"
                  THEN GlyphAttrLoop(attributes, i + 1,
                                     [acc EXCEPT !.format = Some("V2")])
                  ELSE [acc EXCEPT !.err = "UnsupportedGlifVersion"]
             ELSE IF key = "formatMinor"
             THEN LET n == ParseU32(value)
                  IN  IF IsSome(n)
                      THEN GlyphAttrLoop(attributes, i + 1,
                                         [acc EXCEPT !.format_minor = Unwrap(n)])
                      ELSE [acc EXCEPT !.err = "InvalidInteger"]
             ELSE [acc EXCEPT !.err = "UnexpectedAttribute"]

\* parse_glyph with the final test reduced to format.is_some(): a header
\* without a name is accepted.
parse_glyphFormatOnly(attributes) ==
    LET acc == GlyphAttrLoop(attributes, 1,
                   [name |-> "", format |-> None, format_minor |-> 0,
                    err |-> ""])
    IN  IF acc.err # "" THEN [err |-> acc.err, val |-> GlyphNewNamed("")]
        ELSE IF IsSome(acc.format)
        THEN [err |-> "",
              val |-> [GlyphNewNamed(acc.name) EXCEPT
                          !.format = Unwrap(acc.format),
                          !.format_minor = acc.format_minor]]
        ELSE [err |-> "InvalidGlyph", val |-> GlyphNewNamed("")]

\* parse_glyph: Ok(glyph) or the error.
parse_glyph(attributes) ==
    LET acc == GlyphAttrLoop(attributes, 1,
                   [name |-> "", format |-> None, format_minor |-> 0,
                    err |-> ""])
    IN  IF acc.err # "" THEN [err |-> acc.err, val |-> GlyphNewNamed("")]
        ELSE IF acc.name # "" /\ IsSome(acc.format)
        THEN [err |-> "",
              val |-> [GlyphNewNamed(acc.name) EXCEPT
                          !.format = Unwrap(acc.format),
                          !.format_minor = acc.format_minor]]
        ELSE [err |-> "InvalidGlyph", val |-> GlyphNewNamed("")]

RECURSIVE AdvanceAttrLoop(_, _, _)
AdvanceAttrLoop(attributes, i, acc) ==
    IF i > Len(attributes) THEN acc
    ELSE LET key == Key(attributes[i])
             n == parse_number(Value(attributes[i]))
         IN  IF key = "height"
             THEN IF n.err # "" THEN [acc EXCEPT !.err = n.err]
                  ELSE AdvanceAttrLoop(attributes, i + 1,
                                       [acc EXCEPT !.height = n.val])
             ELSE IF key = "width"
             THEN IF n.err # "" THEN [acc EXCEPT !.err = n.err]
                  ELSE AdvanceAttrLoop(attributes, i + 1,
                                       [acc EXCEPT !.width = n.val])
             ELSE [acc EXCEPT !.err = "UnexpectedAttribute"]

\* parse_advance: Ok((height, width)) or the error.
parse_advance(attributes) ==
    AdvanceAttrLoop(attributes, 1, [height |-> 0, width |-> 0, err |-> ""])

RECURSIVE UnicodeAttrLoop(_, _, _)
UnicodeAttrLoop(attributes, i, acc) ==
    IF i > Len(attributes) THEN acc
    ELSE IF Key(attributes[i]) = "hex"
    THEN LET c == parse_codepoint(Value(attributes[i]))
         IN  IF c.err # "" THEN [acc EXCEPT !.err = c.err]
             ELSE UnicodeAttrLoop(attributes, i + 1,
                                  [acc EXCEPT !.codepoint = Some(c.val)])
    ELSE [acc EXCEPT !.err = "UnexpectedAttribute"]

\* parse_unicode: Ok(char) or the error.
parse_unicode(attributes) ==
    LET acc == UnicodeAttrLoop(attributes, 1, [codepoint |-> None, err |-> ""])
    IN  IF acc.err # "" THEN [err |-> acc.err, val |-> 0]
        ELSE IF IsSome(acc.codepoint)
        THEN [err |-> "", val |-> Unwrap(acc.codepoint)]
        ELSE [err |-> "InvalidUnicode", val |-> 0]

\* The locals an anchor's or a guideline's attribute loop starts from; ids
\* is the identifier registry the loop threads through parse_identifier.
NoAttrs(identifier_set) ==
    [x |-> None, y |-> None, angle |-> None, name |-> None, color |-> None,
     identifier |-> None, ids |-> identifier_set, err |-> ""]

RECURSIVE AnchorAttrLoop(_, _, _, _)
AnchorAttrLoop(attributes, i, acc, glif_format) ==
    IF i > Len(attributes) THEN acc
    ELSE LET key == Key(attributes[i])
             value == Value(attributes[i])
             n == parse_number(value)
             c == parse_color(value)
             id == parse_identifier(value, acc.ids, glif_format)
         IN  IF key = "x"
             THEN IF n.err # "" THEN [acc EXCEPT !.err = n.err]
                  ELSE AnchorAttrLoop(attributes, i + 1,
                           [acc EXCEPT !.x = Some(n.val)], glif_format)
             ELSE IF key = "y"
             THEN IF n.err # "" THEN [acc EXCEPT !.err = n.err]
                  ELSE AnchorAttrLoop(attributes, i + 1,
                           [acc EXCEPT !.y = Some(n.val)], glif_format)
             ELSE IF key = "name"
             THEN AnchorAttrLoop(attributes, i + 1,
                      [acc EXCEPT !.name = Some(value)], glif_format)
             ELSE IF key = "color"
             THEN IF c.err # "" THEN [acc EXCEPT !.err = c.err]
                  ELSE AnchorAttrLoop(attributes, i + 1,
                           [acc EXCEPT !.color = Some(c.val)], glif_format)
             ELSE IF key = "identifier"
             THEN IF id.err # "" THEN [acc EXCEPT !.err = id.err]
                  ELSE AnchorAttrLoop(attributes, i + 1,
                           [acc EXCEPT !.identifier = Some(id.val),
                                       !.ids = id.ids], glif_format)
             ELSE [acc EXCEPT !.err = "UnexpectedAttribute"]

\* Anchor::new(x, y, name, color, identifier, None).
AnchorNew(x, y, name, color, identifier) ==
    [x |-> x, y |-> y, name |-> name, color |-> color,
     identifier |-> identifier]

NoAnchor == AnchorNew(0, 0, None, None, None)

\* parse_anchor: Ok(anchor) or the error; ids is the registry afterwards.
parse_anchor(attributes, identifier_set, glif_format) ==
    LET acc == AnchorAttrLoop(attributes, 1, NoAttrs(identifier_set),
                              glif_format)
    IN  IF acc.err # ""
        THEN [err |-> acc.err, val |-> NoAnchor, ids |-> acc.ids]
        ELSE IF IsSome(acc.x) /\ IsSome(acc.y)
        THEN [err |-> "",
              val |-> AnchorNew(Unwrap(acc.x), Unwrap(acc.y), acc.name,
                                acc.color, acc.identifier),
              ids |-> acc.ids]
        ELSE [err |-> "InvalidAnchor", val |-> NoAnchor, ids |-> acc.ids]

\* The range check with the upper end left out: (0.0..360.0).
AngleInRangeHalfOpen(angle_value) == 0 <= angle_value /\ angle_value < 3600

\* (0.0..=360.0).contains(&angle_value), in tenths.
AngleInRange(angle_value) == 0 <= angle_value /\ angle_value <= 3600

RECURSIVE GuidelineAttrLoop(_, _, _, _)
GuidelineAttrLoop(attributes, i, acc, glif_format) ==
    IF i > Len(attributes) THEN acc
    ELSE LET key == Key(attributes[i])
             value == Value(attributes[i])
             n == parse_number(value)
             c == parse_color(value)
             id == parse_identifier(value, acc.ids, glif_format)
         IN  IF key = "x"
             THEN IF n.err # "" THEN [acc EXCEPT !.err = n.err]
                  ELSE GuidelineAttrLoop(attributes, i + 1,
                           [acc EXCEPT !.x = Some(n.val)], glif_format)
             ELSE IF key = "y"
             THEN IF n.err # "" THEN [acc EXCEPT !.err = n.err]
                  ELSE GuidelineAttrLoop(attributes, i + 1,
                           [acc EXCEPT !.y = Some(n.val)], glif_format)
             ELSE IF key = "angle"
             THEN IF n.err # "" THEN [acc EXCEPT !.err = n.err]
                  ELSE IF ~AngleInRange(n.val)
                  THEN [acc EXCEPT !.err = "InvalidAngle"]
                  ELSE GuidelineAttrLoop(attributes, i + 1,
                           [acc EXCEPT !.angle = Some(n.val)], glif_format)
             ELSE IF key = "name"
             THEN GuidelineAttrLoop(attributes, i + 1,
                      [acc EXCEPT !.name = Some(value)], glif_format)
             ELSE IF key = "color"
             THEN IF c.err # "" THEN [acc EXCEPT !.err = c.err]
                  ELSE GuidelineAttrLoop(attributes, i + 1,
                           [acc EXCEPT !.color = Some(c.val)], glif_format)
             ELSE IF key = "identifier"
             THEN IF id.err # "" THEN [acc EXCEPT !.err = id.err]
                  ELSE GuidelineAttrLoop(attributes, i + 1,
                           [acc EXCEPT !.identifier = Some(id.val),
                                       !.ids = id.ids], glif_format)
             ELSE [acc EXCEPT !.err = "UnexpectedAttribute"]

\* The Line variants; a field a variant does not carry is 0.
LineVertical(x) == [tag |-> "Vertical", x |-> x, y |-> 0, degrees |-> 0]
LineHorizontal(y) == [tag |-> "Horizontal", x |-> 0, y |-> y, degrees |-> 0]
LineAngle(x, y, degrees) ==
    [tag |-> "Angle", x |-> x, y |-> y, degrees |-> degrees]
NoLine == [tag |-> "", x |-> 0, y |-> 0, degrees |-> 0]

\* The match with its first two arms written (Some(x), None, _) and
\* (None, Some(y), _): an angle without both coordinates is dropped.
GuidelineLineAngleDropped(x, y, angle) ==
    IF IsSome(x) /\ ~IsSome(y)
    THEN Some(LineVertical(Unwrap(x)))
    ELSE IF ~IsSome(x) /\ IsSome(y)
    THEN Some(LineHorizontal(Unwrap(y)))
    ELSE IF IsSome(x) /\ IsSome(y) /\ IsSome(angle)
    THEN Some(LineAngle(Unwrap(x), Unwrap(y), Unwrap(angle)))
    ELSE None

\* The match on (x, y, angle) that ends parse_guideline: Some(line), or
\* None for the arm that returns InvalidGuideline.
GuidelineLine(x, y, angle) ==
    IF IsSome(x) /\ ~IsSome(y) /\ ~IsSome(angle)
    THEN Some(LineVertical(Unwrap(x)))
    ELSE IF ~IsSome(x) /\ IsSome(y) /\ ~IsSome(angle)
    THEN Some(LineHorizontal(Unwrap(y)))
    ELSE IF IsSome(x) /\ IsSome(y) /\ IsSome(angle)
    THEN Some(LineAngle(Unwrap(x), Unwrap(y), Unwrap(angle)))
    ELSE None

\* Guideline::new(line, name, color, identifier, None).
GuidelineNew(line, name, color, identifier) ==
    [line |-> line, name |-> name, color |-> color, identifier |-> identifier]

NoGuideline == GuidelineNew(NoLine, None, None, None)

\* parse_guideline: Ok(guideline) or the error; ids is the registry
\* afterwards.
parse_guideline(attributes, identifier_set, glif_format) ==
    LET acc == GuidelineAttrLoop(attributes, 1, NoAttrs(identifier_set),
                                 glif_format)
        line == GuidelineLine(acc.x, acc.y, acc.angle)
    IN  IF acc.err # ""
        THEN [err |-> acc.err, val |-> NoGuideline, ids |-> acc.ids]
        ELSE IF IsSome(line)
        THEN [err |-> "",
              val |-> GuidelineNew(Unwrap(line), acc.name, acc.color,
                                   acc.identifier),
              ids |-> acc.ids]
        ELSE [err |-> "InvalidGuideline", val |-> NoGuideline,
              ids |-> acc.ids]

\* AffineTransform::default(): the identity, in tenths.
AffineTransformDefault ==
    [x_scale |-> 10, xy_scale |-> 0, yx_scale |-> 0, y_scale |-> 10,
     x_offset |-> 0, y_offset |-> 0]

RECURSIVE ImageAttrLoop(_, _, _)
ImageAttrLoop(attributes, i, acc) ==
    IF i > Len(attributes) THEN acc
    ELSE LET key == Key(attributes[i])
             value == Value(attributes[i])
             n == parse_number(value)
             c == parse_color(value)
             field == CASE key = "xScale"  -> "x_scale"
                        [] key = "xyScale" -> "xy_scale"
                        [] key = "yxScale" -> "yx_scale"
                        [] key = "yScale"  -> "y_scale"
                        [] key = "xOffset" -> "x_offset"
                        [] key = "yOffset" -> "y_offset"
                        [] OTHER           -> ""
         IN  IF field # ""
             THEN IF n.err # "" THEN [acc EXCEPT !.err = n.err]
                  ELSE ImageAttrLoop(attributes, i + 1,
                           [acc EXCEPT !.transform[field] = n.val])
             ELSE IF key = "color"
             THEN IF c.err # "" THEN [acc EXCEPT !.err = c.err]
                  ELSE ImageAttrLoop(attributes, i + 1,
                           [acc EXCEPT !.color = Some(c.val)])
             ELSE IF key = "fileName"
             THEN ImageAttrLoop(attributes, i + 1,
                      [acc EXCEPT !.filename = Some(value)])
             ELSE [acc EXCEPT !.err = "UnexpectedAttribute"]

NoImage == [file_name |-> "", color |-> None,
            transform |-> AffineTransformDefault]

\* parse_image: Ok(image) or the error.
parse_image(attributes) ==
    LET acc == ImageAttrLoop(attributes, 1,
                   [filename |-> None, color |-> None,
                    transform |-> AffineTransformDefault, err |-> ""])
    IN  IF acc.err # "" THEN [err |-> acc.err, val |-> NoImage]
        ELSE IF IsSome(acc.filename)
        THEN [err |-> "",
              val |-> [file_name |-> Unwrap(acc.filename),
                       color |-> acc.color, transform |-> acc.transform]]
        ELSE [err |-> "InvalidImage", val |-> NoImage]

\* ---------------------------------------------------------------- events
\* One event of the tokenizer: its kind, the tag name and the attributes
\* of an element event, the content of a text event.
Ev(kind, name, attrs) ==
    [kind |-> kind, name |-> name, attrs |-> attrs, text |-> ""]
StartEv(name, attrs) == Ev("Start", name, attrs)
EmptyEv(name, attrs) == Ev("Empty", name, attrs)
EndEv(name) == Ev("End", name, << >>)
TextEv(text) == [kind |-> "Text", name |-> "", attrs |-> << >>, text |-> text]
CommentEv == Ev("Comment", "", << >>)
DeclEv == Ev("Decl", "", << >>)
EofEv == Ev("Eof", "", << >>)
\* The value of event before the first read and after a failed one.
NoEvent == Ev("", "", << >>)

\* Attribute lists of the opening glyph tag.
GlyphAttrs ==
    { << Attr("name", "a"), Attr("format", "2") >>,
      << Attr("name", "a"), Attr("format", "1") >>,
      << Attr("format", "2"), Attr("name", "a"), Attr("formatMinor", "1") >>,
      << Attr("name", "a"), Attr("format", "3") >>,
      << Attr("format", "2") >>,
      << Attr("name", "a"), Attr("format", "2"), Attr("bogus", "x") >>,
      << Attr("name", "a") >>,
      << Attr("name", ""), Attr("format", "2") >>,
      << Attr("name", "a"), Attr("format", "2"), Attr("formatMinor", "x") >>,
      << Attr("bogus", "x"), Attr("format", "3") >>,
      << Attr("format", "3"), Attr("bogus", "x") >> }

UnicodeAttrs ==
    { << Attr("hex", "002E") >>, << Attr("hex", "04D2") >>,
      << Attr("hex", "D800") >>, << >> }

AnchorAttrs ==
    { << Attr("x", "74"), Attr("y", "197") >>,
      << Attr("x", "74"), Attr("y", "197"), Attr("identifier", "i1") >>,
      << Attr("identifier", "i2"), Attr("x", "74"), Attr("y", "197") >>,
      << Attr("identifier", "i2"), Attr("x", "74") >>,
      << Attr("x", "74") >> }

\* Every presence pattern of {x, y, angle}, some with an identifier, and
\* the ways an attribute can fail.
GuidelineAttrs ==
    { << >>,
      << Attr("x", "74") >>,
      << Attr("y", "-12") >>,
      << Attr("angle", "30") >>,
      << Attr("x", "74"), Attr("angle", "30") >>,
      << Attr("y", "-12"), Attr("angle", "30") >>,
      << Attr("x", "74"), Attr("y", "-12") >>,
      << Attr("x", "74"), Attr("y", "-12"), Attr("angle", "360") >>,
      << Attr("angle", "0"), Attr("y", "-12"), Attr("x", "74") >>,
      << Attr("x", "74"), Attr("identifier", "i1") >>,
      << Attr("y", "-12"), Attr("angle", "30"), Attr("identifier", "i2") >>,
      << Attr("x", "74"), Attr("y", "-12"), Attr("angle", "360.1") >>,
      << Attr("angle", "-0.1"), Attr("x", "74"), Attr("y", "-12") >>,
      << Attr("x", "seven") >>,
      << Attr("y", "-12"), Attr("bogus", "x") >> }

AdvanceAttrs ==
    { << Attr("height", "123"), Attr("width", "268") >>,
      << Attr("width", "wide") >> }

ImageAttrs ==
    { << Attr("fileName", "sketch.png") >>,
      << Attr("fileName", "sketch.png"), Attr("identifier", "i1") >>,
      << Attr("identifier", "i1"), Attr("fileName", "sketch.png") >>,
      << Attr("xScale", "0") >> }

\* Attribute lists of the elements the driver has no arm for.
OtherAttrs == { << >>, << Attr("identifier", "i1") >> }

\* The opening glyph tag of a format 2 and of a format 1 glyph.
GlyphV2 == StartEv("glyph", << Attr("name", "a"), Attr("format", "2") >>)
GlyphV1 == StartEv("glyph", << Attr("name", "a"), Attr("format", "1") >>)

\* The documents of the model are written in one of a few vocabularies,
\* each a set of events the tokenizer can yield to the driver loop: one
\* parse draws all its events from one vocabulary.
\* The structure of a document: the glyph element in both forms, a child,
\* a nested element, text, comments, declarations.
VStructure ==
    { GlyphV2,
      StartEv("glyph", << Attr("name", "a"), Attr("format", "3") >>),
      EmptyEv("glyph", << Attr("name", "a"), Attr("format", "2") >>),
      EmptyEv("unicode", << Attr("hex", "002E") >>),
      StartEv("outline", << >>), EndEv("outline"), EndEv("glyph"),
      TextEv("t"), CommentEv, DeclEv, EofEv }

\* The glyph header and the codepoints.
VHeader ==
    { StartEv("glyph", a) : a \in GlyphAttrs }
      \cup { EmptyEv("unicode", a) : a \in UnicodeAttrs }
      \cup { EndEv("glyph"), EofEv }

\* advance and image, self-closing and as an open/close pair.
VSelfClosing ==
    { GlyphV2 }
      \cup { EmptyEv("advance", a) : a \in AdvanceAttrs }
      \cup { EmptyEv("image", a) : a \in ImageAttrs }
      \cup { StartEv("advance", << >>), EndEv("advance"),
             TextEv("t"), EndEv("glyph"), EofEv }

\* note and lib, as an open/close pair and self-closing.
VOpenClose ==
    { GlyphV2, StartEv("note", << >>), StartEv("lib", << >>),
      EmptyEv("note", << >>), EmptyEv("lib", << >>),
      CommentEv, EndEv("glyph"), EofEv }

\* The elements that can carry an identifier, under both formats.
VIdentifier ==
    { GlyphV2, GlyphV1 }
      \cup { EmptyEv("anchor", a) : a \in AnchorAttrs }
      \cup { EmptyEv("guideline",
                     << Attr("x", "74"), Attr("identifier", "i1") >>),
             EmptyEv("image", << Attr("fileName", "sketch.png"),
                                 Attr("identifier", "i1") >>) }
      \cup { EmptyEv("point", a) : a \in OtherAttrs }
      \cup { EndEv("glyph"), EofEv }

\* The guidelines.
VGuideline ==
    { GlyphV2, GlyphV1 }
      \cup { EmptyEv("guideline", a) : a \in GuidelineAttrs }
      \cup { EndEv("glyph"), EofEv }

\* The three lists of a glyph, their elements interleaved and repeated.
VLists ==
    { GlyphV2,
      EmptyEv("unicode", << Attr("hex", "002E") >>),
      EmptyEv("anchor", << Attr("x", "74"), Attr("y", "197") >>),
      EmptyEv("anchor", << Attr("y", "-12"), Attr("x", "1"),
                           Attr("name", "top") >>),
      EmptyEv("guideline", << Attr("x", "74") >>),
      EmptyEv("guideline", << Attr("y", "-12"), Attr("name", "base") >>),
      EndEv("glyph"), EofEv }

\* Elements whose first attribute is an identifier, well-formed or not,
\* under both formats.
VRegistry ==
    { GlyphV2, GlyphV1,
      EmptyEv("anchor", << Attr("identifier", "i1"), Attr("x", "74"),
                           Attr("y", "197") >>),
      EmptyEv("anchor", << Attr("identifier", "i2"), Attr("x", "74"),
                           Attr("y", "197") >>),
      EmptyEv("anchor", << Attr("identifier", "bad\n"), Attr("x", "74"),
                           Attr("y", "197") >>),
      EmptyEv("guideline", << Attr("identifier", "i1"), Attr("x", "74") >>),
      EmptyEv("guideline", << Attr("identifier", "i2"), Attr("y", "-12") >>),
      EndEv("glyph"), EofEv }

Vocabularies ==
    { VStructure, VHeader, VSelfClosing, VOpenClose, VIdentifier, VGuideline,
      VLists, VRegistry }

\* What follows an opening note tag, up to the event that ends read_text.
NoteBodies ==
    { << TextEv("I am a note."), EndEv("note") >>,
      << EndEv("note") >>,
      << TextEv("I am "), StartEv("note", << >>), EndEv("note"),
         EndEv("note") >>,
      << EmptyEv("advance", << >>) >>,
      << TextEv("I am a note."), EndEv("glyph") >>,
      << EofEv >> }

\* What follows an opening lib tag, up to the event that ends read_to_end.
LibBodies ==
    { << StartEv("dict", << >>), StartEv("key", << >>), TextEv("k"),
         EndEv("key"), EmptyEv("true", << >>), EndEv("dict"),
         EndEv("lib") >>,
      << EmptyEv("dict", << >>), EndEv("lib") >>,
      << EmptyEv("array", << >>), EndEv("lib") >>,
      << EmptyEv("advance", << >>), EndEv("lib") >>,
      << StartEv("lib", << >>), EndEv("lib"), EndEv("lib") >>,
      << EndEv("lib") >>,
      << TextEv("t"), EofEv >> }

\* ------------------------------------------------------------ the reader
\* The reader's stack of open elements after it yields e (Start pushes,
\* End pops).
Opened(stack, e) ==
    IF e.kind = "Start" THEN Append(stack, e.name)
    ELSE IF e.kind = "End" /\ stack # << >>
    THEN SubSeq(stack, 1, Len(stack) - 1)
    ELSE stack

\* The reader checks end names: a closing tag that does not close the
\* innermost open element is an error of the tokenizer.
EndMismatch(stack, e) ==
    IF e.kind # "End" THEN FALSE
    ELSE IF stack = << >> THEN TRUE
    ELSE stack[Len(stack)] # e.name

\* Reader::read_to_end(end) on the events body[i..], depth counting the
\* nested elements named end: status "ok" once the matching closing tag is
\* read, "xml" on end of file or a tokenizer error, "more" when body ends
\* before either; n is the number of events read.
RECURSIVE ReadToEnd(_, _, _, _, _)
ReadToEnd(end, body, i, depth, stack) ==
    IF i > Len(body) THEN [status |-> "more", n |-> i - 1]
    ELSE LET e == body[i]
         IN  IF EndMismatch(stack, e) THEN [status |-> "xml", n |-> i]
             ELSE IF e.kind = "End" /\ e.name = end
             THEN IF depth = 0 THEN [status |-> "ok", n |-> i]
                  ELSE ReadToEnd(end, body, i + 1, depth - 1, Opened(stack, e))
             ELSE IF e.kind = "Start" /\ e.name = end
             THEN ReadToEnd(end, body, i + 1, depth + 1, Opened(stack, e))
             ELSE IF e.kind = "Eof" THEN [status |-> "xml", n |-> i]
             ELSE ReadToEnd(end, body, i + 1, depth, Opened(stack, e))

\* Reader::read_text(end): the text of a first text event, then
\* read_to_end; the empty string when the closing tag comes at once; an
\* error of the tokenizer for anything else.
ReadText(end, body, stack) ==
    IF body = << >> THEN [status |-> "more", n |-> 0, text |-> ""]
    ELSE LET e == body[1]
         IN  IF EndMismatch(stack, e)
             THEN [status |-> "xml", n |-> 1, text |-> ""]
             ELSE IF e.kind = "Text"
             THEN LET r == ReadToEnd(end, body, 2, 0, stack)
                  IN  [status |-> r.status, n |-> r.n, text |-> e.text]
             ELSE IF e.kind = "End" /\ e.name = end
             THEN [status |-> "ok", n |-> 1, text |-> ""]
             ELSE [status |-> "xml", n |-> 1, text |-> ""]

\* parse_note: Ok(text) or Err(Xml).
parse_note(body, stack) ==
    LET r == ReadText("note", body, stack)
    IN  [err |-> IF r.status = "ok" THEN "" ELSE "Xml", val |-> r.text,
         n |-> r.n, status |-> r.status]

\* plist::Value::from_reader_xml(slice).into_dictionary(): the keys of a
\* dictionary, LibMustBeDictionary for another value, ParsePlist for no
\* value.
PlistDictionary(slice) ==
    IF slice = << >> \/ slice[1].kind \notin {"Start", "Empty"}
       \/ slice[1].name \notin {"dict", "array", "true"}
    THEN [err |-> "ParsePlist", val |-> {}]
    ELSE IF slice[1].name # "dict"
    THEN [err |-> "LibMustBeDictionary", val |-> {}]
    ELSE [err |-> "",
          val |-> { slice[i + 1].text :
                      i \in { j \in 1 .. Len(slice) - 1 :
                                /\ slice[j].kind = "Start"
                                /\ slice[j].name = "key"
                                /\ slice[j + 1].kind = "Text" } }]

\* parse_lib taking end before the closing tag is read: the slice stops
\* short of it.
parse_libContentOnly(body, stack) ==
    LET r == ReadToEnd("lib", body, 1, 0, stack)
        slice == SubSeq(body, 1, r.n - 1)
        dict == PlistDictionary(slice)
    IN  IF r.status # "ok"
        THEN [err |-> "Xml", val |-> {}, n |-> r.n, status |-> r.status,
              slice |-> << >>]
        ELSE [err |-> dict.err, val |-> dict.val, n |-> r.n,
              status |-> r.status, slice |-> slice]

\* parse_lib: read to the closing lib tag, hand the events read (the
\* slice from the offset after the opening tag to the offset after the
\* closing tag) to the dictionary parser.
parse_lib(body, stack) ==
    LET r == ReadToEnd("lib", body, 1, 0, stack)
        slice == SubSeq(body, 1, r.n)
        dict == PlistDictionary(slice)
    IN  IF r.status # "ok"
        THEN [err |-> "Xml", val |-> {}, n |-> r.n, status |-> r.status,
              slice |-> << >>]
        ELSE [err |-> dict.err, val |-> dict.val, n |-> r.n,
              status |-> r.status, slice |-> slice]

\* ----------------------------------------------------------------- state
VARIABLES
    vocabulary,       \* the events the document is written in
    state,            \* the driver's State: "Start", "Glyph" or "Done"
    glyph,            \* the Glyph the state carries (none in Start)
    identifier_set,   \* the identifiers registered so far
    seen_advance,
    seen_lib,
    opened,           \* the reader's stack of open elements
    steps,            \* iterations of the driver loop so far
    event,            \* the event the last read yielded to the driver
    result,           \* "Running", "Ok", or the error parse_glif returned
    \* What the parse has seen of the document, kept for the properties:
    first_element,    \* the first element event, if any
    child_count,      \* children of the top-level glyph, by tag, up to 2
    recognised,       \* occurrences the driver has an arm for, up to 2
    doc_identifiers,  \* identifier values carried by the elements seen
    dup_identifier,   \* two elements seen carried the same identifier
    list_events,      \* the unicode, anchor and guideline events the
                      \* driver gave to a builder, in the order pulled
    top_level,        \* the elements and text pulled outside any element,
                      \* by tag ("#text" for text), the first three
    xml,              \* the input buffer, as the events it holds, when the
                      \* document is fixed in advance; empty when its
                      \* events are drawn as the parse goes
    pos,              \* reader.buffer_position(), in events
    plist_slice,      \* the slice parse_lib gave the dictionary parser
    run,              \* 1 in the first call of parse_glif, 2 in a second
    snapshot          \* where the first call was when the second began

vars == << vocabulary, state, glyph, identifier_set, seen_advance, seen_lib, opened,
           steps, event, result, first_element, child_count, recognised,
           doc_identifiers, dup_identifier, list_events, top_level,
           xml, pos, plist_slice, run, snapshot >>

\* The elements a glyph may hold once.
Single == {"advance", "image", "note", "lib"}

\* The syntactic form in which the driver recognises each of them.
FormOf(name) == IF name \in {"note", "lib"} THEN "Start" ELSE "Empty"

\* The value of the identifier attribute of an element event, if any.
IdentifierOf(e) ==
    LET at == { i \in 1 .. Len(e.attrs) : Key(e.attrs[i]) = "identifier" }
    IN  IF at = {} THEN None
        ELSE Some(Value(e.attrs[CHOOSE i \in at : TRUE]))

\* No slice was given to the dictionary parser.
NoSlice == [start |-> 0, end |-> 0, events |-> << >>]

\* What a call has reached: the offset, the driver's state and locals,
\* the outcome.
Reached ==
    [pos |-> pos, state |-> state, glyph |-> glyph,
     identifier_set |-> identifier_set, seen_advance |-> seen_advance,
     seen_lib |-> seen_lib, result |-> result]

\* The locals of parse_glif as it enters the loop, and the reader at
\* offset 0.
Entry ==
    /\ state = "Start"
    /\ glyph = GlyphNewNamed("")
    /\ identifier_set = {}
    /\ seen_advance = FALSE
    /\ seen_lib = FALSE
    /\ opened = << >>
    /\ pos = 0
    /\ steps = 0
    /\ event = NoEvent
    /\ result = "Running"
    /\ plist_slice = NoSlice
    /\ first_element = None
    /\ child_count = [n \in Single |-> 0]
    /\ recognised = [n \in Single |-> 0]
    /\ doc_identifiers = {}
    /\ dup_identifier = FALSE
    /\ list_events = << >>
    /\ top_level = << >>

Init ==
    /\ vocabulary \in Vocabularies
    /\ xml = << >>
    /\ run = 1
    /\ Entry
    /\ snapshot = Reached

\* The arm of the driver's match that (state, event) selects: the first
\* one, in the order of the source, whose pattern and guard hold.
Arm(s, e) ==
    IF e.kind = "Comment" THEN "Comment"
    ELSE IF e.kind = "Decl" THEN "Decl"
    ELSE IF s = "Start" /\ e.kind = "Start" /\ e.name = "glyph"
    THEN "StartGlyph"
    ELSE IF s = "Start" /\ e.kind \in {"Empty", "Start"}
    THEN "WrongFirstElement"
    ELSE IF s = "Glyph" /\ e.kind = "Empty" /\ e.name = "unicode"
    THEN "Unicode"
    ELSE IF s = "Glyph" /\ e.kind = "Empty" /\ e.name = "anchor"
    THEN "Anchor"
    ELSE IF s = "Glyph" /\ e.kind = "Empty" /\ e.name = "guideline"
    THEN "Guideline"
    ELSE IF s = "Glyph" /\ e.kind = "Empty" /\ e.name = "advance"
    THEN "Advance"
    ELSE IF s = "Glyph" /\ e.kind = "Start" /\ e.name = "note"
    THEN "Note"
    ELSE IF s = "Glyph" /\ e.kind = "Start" /\ e.name = "lib"
    THEN "Lib"
    ELSE IF s = "Glyph" /\ e.kind = "Empty" /\ e.name = "image"
    THEN "Image"
    ELSE IF s = "Glyph" /\ e.kind = "End" /\ e.name = "glyph"
    THEN "EndGlyph"
    ELSE IF s = "Done" /\ e.kind = "Eof" THEN "Finish"
    ELSE IF s = "Done" THEN "TrailingData"
    ELSE IF e.kind = "Eof" THEN "UnexpectedEof"
    ELSE "PassThrough"

\* e is the event at the reader's offset.
Feeds(e) ==
    IF xml = << >> THEN TRUE
    ELSE IF pos < Len(xml) THEN xml[pos + 1] = e
    ELSE FALSE

\* What can follow the event at the reader's offset, for a handler that
\* reads on: one of bodies, or a stretch of the input buffer.
Following(bodies) ==
    IF xml = << >> THEN bodies
    ELSE { SubSeq(xml, pos + 2, k) : k \in pos + 2 .. Len(xml) }

\* reader.read_event() yields e to the driver loop.
CanRead(e) ==
    /\ result = "Running"
    /\ steps < MaxSteps
    /\ Feeds(e)
    /\ ~EndMismatch(opened, e)
    /\ e.kind = "Start" => Len(opened) < MaxDepth

Bump(count, name) ==
    [count EXCEPT ![name] = IF @ < 2 THEN @ + 1 ELSE @]

\* PullWith with the reader left where it was: the next read yields the
\* same event again.
PullWithoutAdvance(e, n, slice) ==
    /\ UNCHANGED << vocabulary, xml, run, snapshot >>
    /\ pos' = pos
    /\ plist_slice' = slice
    /\ steps' = steps + 1
    /\ event' = e
    /\ first_element' =
           IF first_element = None /\ e.kind \in {"Start", "Empty"}
           THEN Some(<< e.kind, e.name >>) ELSE first_element
    /\ child_count' =
           IF e.kind \in {"Start", "Empty"} /\ e.name \in Single
              /\ opened = << "glyph" >>
           THEN Bump(child_count, e.name) ELSE child_count
    /\ recognised' =
           IF state = "Glyph" /\ e.name \in Single /\ e.kind = FormOf(e.name)
           THEN Bump(recognised, e.name) ELSE recognised
    /\ doc_identifiers' =
           IF e.kind \in {"Start", "Empty"}
           THEN doc_identifiers \cup { IdentifierOf(e)[i] :
                                         i \in 1 .. Len(IdentifierOf(e)) }
           ELSE doc_identifiers
    /\ dup_identifier' =
           IF dup_identifier THEN TRUE
           ELSE IF e.kind \in {"Start", "Empty"} /\ IsSome(IdentifierOf(e))
           THEN Unwrap(IdentifierOf(e)) \in doc_identifiers
           ELSE FALSE
    /\ list_events' =
           IF state = "Glyph" /\ e.kind = "Empty"
              /\ e.name \in {"unicode", "anchor", "guideline"}
           THEN Append(list_events, e) ELSE list_events
    /\ top_level' =
           IF opened = << >> /\ e.kind \in {"Start", "Empty", "Text"}
              /\ Len(top_level) < 3
           THEN Append(top_level, IF e.kind = "Text" THEN "#text" ELSE e.name)
           ELSE top_level

\* One iteration of the loop has pulled e, and its handler has read n
\* more events and left slice as the last one given to the dictionary
\* parser: the bookkeeping every arm shares.
PullWith(e, n, slice) ==
    /\ UNCHANGED << vocabulary, xml, run, snapshot >>
    /\ pos' = pos + 1 + n
    /\ plist_slice' = slice
    /\ steps' = steps + 1
    /\ event' = e
    /\ first_element' =
           IF first_element = None /\ e.kind \in {"Start", "Empty"}
           THEN Some(<< e.kind, e.name >>) ELSE first_element
    /\ child_count' =
           IF e.kind \in {"Start", "Empty"} /\ e.name \in Single
              /\ opened = << "glyph" >>
           THEN Bump(child_count, e.name) ELSE child_count
    /\ recognised' =
           IF state = "Glyph" /\ e.name \in Single /\ e.kind = FormOf(e.name)
           THEN Bump(recognised, e.name) ELSE recognised
    /\ doc_identifiers' =
           IF e.kind \in {"Start", "Empty"}
           THEN doc_identifiers \cup { IdentifierOf(e)[i] :
                                         i \in 1 .. Len(IdentifierOf(e)) }
           ELSE doc_identifiers
    /\ dup_identifier' =
           IF dup_identifier THEN TRUE
           ELSE IF e.kind \in {"Start", "Empty"} /\ IsSome(IdentifierOf(e))
           THEN Unwrap(IdentifierOf(e)) \in doc_identifiers
           ELSE FALSE
    /\ list_events' =
           IF state = "Glyph" /\ e.kind = "Empty"
              /\ e.name \in {"unicode", "anchor", "guideline"}
           THEN Append(list_events, e) ELSE list_events
    /\ top_level' =
           IF opened = << >> /\ e.kind \in {"Start", "Empty", "Text"}
              /\ Len(top_level) < 3
           THEN Append(top_level, IF e.kind = "Text" THEN "#text" ELSE e.name)
           ELSE top_level

\* The same for a handler that reads nothing more.
Pull(e) == PullWith(e, 0, plist_slice)

\* return Err(Error::Parse(kind)), or Err(Error::Xml) for kind "Xml": the
\* state and the glyph it carries are as the event found them.
Fail(kind) ==
    /\ result' = kind
    /\ UNCHANGED << state, glyph >>

\* ---------------------------------------------------------------- actions
\* read_event fails: a closing tag that closes nothing open.
XmlError ==
    \E e \in vocabulary :
        /\ result = "Running"
        /\ steps < MaxSteps
        /\ Feeds(e)
        /\ EndMismatch(opened, e)
        /\ result' = "Xml"
        /\ steps' = steps + 1
        /\ pos' = pos + 1
        /\ event' = NoEvent
        /\ UNCHANGED << vocabulary, state, glyph, identifier_set,
                        seen_advance, seen_lib, opened, first_element, child_count,
                        recognised, doc_identifiers, dup_identifier,
                        list_events, top_level, xml, plist_slice, run,
                        snapshot >>

\* The Comment arm placed after the (State::Done, _) arm: a comment
\* after the closing glyph tag is trailing data.
CommentAfterDoneArm ==
    \E e \in vocabulary :
        /\ CanRead(e)
        /\ Arm(state, e) = "Comment"
        /\ Pull(e)
        /\ opened' = Opened(opened, e)
        /\ IF state = "Done" THEN Fail("TrailingData")
           ELSE UNCHANGED << state, glyph, result >>
        /\ UNCHANGED << identifier_set, seen_advance, seen_lib >>

\* (state, Event::Comment(_)) => state
Comment ==
    \E e \in vocabulary :
        /\ CanRead(e)
        /\ Arm(state, e) = "Comment"
        /\ Pull(e)
        /\ opened' = Opened(opened, e)
        /\ UNCHANGED << state, glyph, identifier_set, seen_advance, seen_lib,
                        result >>

\* (state, Event::Decl(_)) => state
Decl ==
    \E e \in vocabulary :
        /\ CanRead(e)
        /\ Arm(state, e) = "Decl"
        /\ Pull(e)
        /\ opened' = Opened(opened, e)
        /\ UNCHANGED << state, glyph, identifier_set, seen_advance, seen_lib,
                        result >>

\* (State::Start, Event::Start(e)) if e.name() == b"glyph"
StartGlyph ==
    \E e \in vocabulary :
        /\ CanRead(e)
        /\ Arm(state, e) = "StartGlyph"
        /\ Pull(e)
        /\ opened' = Opened(opened, e)
        /\ LET g == parse_glyph(e.attrs)
           IN  IF g.err # "" THEN Fail(g.err)
               ELSE /\ state' = "Glyph"
                    /\ glyph' = g.val
                    /\ UNCHANGED result
        /\ UNCHANGED << identifier_set, seen_advance, seen_lib >>

\* WrongFirstElement with the pattern Event::Start(_) alone: a
\* self-closing first element passes.
WrongFirstElementStartOnly ==
    \E e \in vocabulary :
        /\ CanRead(e)
        /\ Arm(state, e) = "WrongFirstElement"
        /\ Pull(e)
        /\ opened' = Opened(opened, e)
        /\ IF e.kind = "Start" THEN Fail("WrongFirstElement")
           ELSE UNCHANGED << state, glyph, result >>
        /\ UNCHANGED << identifier_set, seen_advance, seen_lib >>

\* (State::Start, Event::Empty(_) | Event::Start(_))
WrongFirstElement ==
    \E e \in vocabulary :
        /\ CanRead(e)
        /\ Arm(state, e) = "WrongFirstElement"
        /\ Pull(e)
        /\ opened' = Opened(opened, e)
        /\ Fail("WrongFirstElement")
        /\ UNCHANGED << identifier_set, seen_advance, seen_lib >>

\* Unicode recovering from a refused element: the error of parse_unicode
\* is dropped and the loop goes on.
UnicodeLenient ==
    \E e \in vocabulary :
        /\ CanRead(e)
        /\ Arm(state, e) = "Unicode"
        /\ Len(glyph.codepoints) < MaxItems
        /\ Pull(e)
        /\ opened' = Opened(opened, e)
        /\ LET codepoint == parse_unicode(e.attrs)
           IN  IF codepoint.err # "" THEN UNCHANGED << state, glyph, result >>
               ELSE /\ glyph' = [glyph EXCEPT
                                   !.codepoints = Append(@, codepoint.val)]
                    /\ UNCHANGED << state, result >>
        /\ UNCHANGED << identifier_set, seen_advance, seen_lib >>

\* (State::Glyph(glyph), Event::Empty(e)) if e.name() == b"unicode"
Unicode ==
    \E e \in vocabulary :
        /\ CanRead(e)
        /\ Arm(state, e) = "Unicode"
        /\ Len(glyph.codepoints) < MaxItems
        /\ Pull(e)
        /\ opened' = Opened(opened, e)
        /\ LET codepoint == parse_unicode(e.attrs)
           IN  IF codepoint.err # "" THEN Fail(codepoint.err)
               ELSE /\ glyph' = [glyph EXCEPT
                                   !.codepoints = Append(@, codepoint.val)]
                    /\ UNCHANGED << state, result >>
        /\ UNCHANGED << identifier_set, seen_advance, seen_lib >>

\* Anchor with the new anchor put at the front of the list.
AnchorPrepended ==
    \E e \in vocabulary :
        /\ CanRead(e)
        /\ Arm(state, e) = "Anchor"
        /\ Len(glyph.anchors) < MaxItems
        /\ Pull(e)
        /\ opened' = Opened(opened, e)
        /\ LET anchor == parse_anchor(e.attrs, identifier_set, glyph.format)
           IN  /\ identifier_set' = anchor.ids
               /\ IF anchor.err # "" THEN Fail(anchor.err)
                  ELSE /\ glyph' = [glyph EXCEPT
                                      !.anchors = << anchor.val >> \o @]
                       /\ UNCHANGED << state, result >>
        /\ UNCHANGED << seen_advance, seen_lib >>

\* (State::Glyph(glyph), Event::Empty(e)) if e.name() == b"anchor"
Anchor ==
    \E e \in vocabulary :
        /\ CanRead(e)
        /\ Arm(state, e) = "Anchor"
        /\ Len(glyph.anchors) < MaxItems
        /\ Pull(e)
        /\ opened' = Opened(opened, e)
        /\ LET anchor == parse_anchor(e.attrs, identifier_set, glyph.format)
           IN  /\ identifier_set' = anchor.ids
               /\ IF anchor.err # "" THEN Fail(anchor.err)
                  ELSE /\ glyph' = [glyph EXCEPT
                                      !.anchors = Append(@, anchor.val)]
                       /\ UNCHANGED << state, result >>
        /\ UNCHANGED << seen_advance, seen_lib >>

\* Guideline working on a copy of the registry: the identifier of an
\* accepted guideline is not kept.
GuidelineUnregistered ==
    \E e \in vocabulary :
        /\ CanRead(e)
        /\ Arm(state, e) = "Guideline"
        /\ Len(glyph.guidelines) < MaxItems
        /\ Pull(e)
        /\ opened' = Opened(opened, e)
        /\ LET guideline ==
                   parse_guideline(e.attrs, identifier_set, glyph.format)
           IN  IF guideline.err # "" THEN Fail(guideline.err)
               ELSE /\ glyph' = [glyph EXCEPT
                                   !.guidelines = Append(@, guideline.val)]
                    /\ UNCHANGED << state, result >>
        /\ UNCHANGED << identifier_set, seen_advance, seen_lib >>

\* (State::Glyph(glyph), Event::Empty(e)) if e.name() == b"guideline"
Guideline ==
    \E e \in vocabulary :
        /\ CanRead(e)
        /\ Arm(state, e) = "Guideline"
        /\ Len(glyph.guidelines) < MaxItems
        /\ Pull(e)
        /\ opened' = Opened(opened, e)
        /\ LET guideline ==
                   parse_guideline(e.attrs, identifier_set, glyph.format)
           IN  /\ identifier_set' = guideline.ids
               /\ IF guideline.err # "" THEN Fail(guideline.err)
                  ELSE /\ glyph' = [glyph EXCEPT
                                      !.guidelines = Append(@, guideline.val)]
                       /\ UNCHANGED << state, result >>
        /\ UNCHANGED << seen_advance, seen_lib >>

\* Advance without the seen_advance check: a later advance overwrites
\* the earlier one.
AdvanceUnchecked ==
    \E e \in vocabulary :
        /\ CanRead(e)
        /\ Arm(state, e) = "Advance"
        /\ Pull(e)
        /\ opened' = Opened(opened, e)
        /\ seen_advance' = TRUE
        /\ LET advance == parse_advance(e.attrs)
           IN  IF advance.err # "" THEN Fail(advance.err)
               ELSE /\ glyph' = [glyph EXCEPT
                                   !.height = advance.height,
                                   !.width = advance.width]
                    /\ UNCHANGED << state, result >>
        /\ UNCHANGED << identifier_set, seen_lib >>

\* (State::Glyph(glyph), Event::Empty(e)) if e.name() == b"advance"
Advance ==
    \E e \in vocabulary :
        /\ CanRead(e)
        /\ Arm(state, e) = "Advance"
        /\ Pull(e)
        /\ opened' = Opened(opened, e)
        /\ seen_advance' = TRUE
        /\ IF seen_advance THEN Fail("DuplicateElement")
           ELSE LET advance == parse_advance(e.attrs)
                IN  IF advance.err # "" THEN Fail(advance.err)
                    ELSE /\ glyph' = [glyph EXCEPT
                                        !.height = advance.height,
                                        !.width = advance.width]
                         /\ UNCHANGED << state, result >>
        /\ UNCHANGED << identifier_set, seen_lib >>

\* (State::Glyph(glyph), Event::Start(e)) if e.name() == b"note"; body is
\* what parse_note reads after the opening tag.
Note ==
    \E e \in vocabulary :
        /\ CanRead(e)
        /\ Arm(state, e) = "Note"
        /\ IF IsSome(glyph.note)
           THEN /\ Pull(e)
                /\ opened' = Opened(opened, e)
                /\ Fail("DuplicateElement")
           ELSE \E body \in Following(NoteBodies) :
                    LET note == parse_note(body, Opened(opened, e))
                    IN  /\ note.status # "more"
                        /\ note.n = Len(body)
                        /\ PullWith(e, note.n, plist_slice)
                        /\ IF note.err # ""
                           THEN /\ opened' = Opened(opened, e)
                                /\ Fail(note.err)
                           ELSE /\ opened' = opened
                                /\ glyph' = [glyph EXCEPT
                                               !.note = Some(note.val)]
                                /\ UNCHANGED << state, result >>
        /\ UNCHANGED << identifier_set, seen_advance, seen_lib >>

\* (State::Glyph(glyph), Event::Start(e)) if e.name() == b"lib"; body is
\* what parse_lib reads after the opening tag.
Lib ==
    \E e \in vocabulary :
        /\ CanRead(e)
        /\ Arm(state, e) = "Lib"
        /\ seen_lib' = TRUE
        /\ IF seen_lib
           THEN /\ Pull(e)
                /\ opened' = Opened(opened, e)
                /\ Fail("DuplicateElement")
           ELSE \E body \in Following(LibBodies) :
                    LET lib == parse_lib(body, Opened(opened, e))
                    IN  /\ lib.status # "more"
                        /\ lib.n = Len(body)
                        /\ PullWith(e, lib.n,
                                    IF lib.status = "ok"
                                    THEN [start |-> pos + 1,
                                          end |-> pos + 1 + lib.n,
                                          events |-> lib.slice]
                                    ELSE plist_slice)
                        /\ opened' = IF lib.status = "ok" THEN opened
                                     ELSE Opened(opened, e)
                        /\ IF lib.err # "" THEN Fail(lib.err)
                           ELSE /\ glyph' = [glyph EXCEPT !.lib = lib.val]
                                /\ UNCHANGED << state, result >>
        /\ UNCHANGED << identifier_set, seen_advance >>

\* Attribute a is not an identifier.
NotIdentifier(a) == Key(a) # "identifier"

\* Image passing over an identifier attribute: parse_image sees the
\* other attributes only.
ImageIdentifierPassedOver ==
    \E e \in vocabulary :
        /\ CanRead(e)
        /\ Arm(state, e) = "Image"
        /\ Pull(e)
        /\ opened' = Opened(opened, e)
        /\ IF IsSome(glyph.image) THEN Fail("DuplicateElement")
           ELSE LET image == parse_image(SelectSeq(e.attrs, NotIdentifier))
                IN  IF image.err # "" THEN Fail(image.err)
                    ELSE /\ glyph' = [glyph EXCEPT !.image = Some(image.val)]
                         /\ UNCHANGED << state, result >>
        /\ UNCHANGED << identifier_set, seen_advance, seen_lib >>

\* (State::Glyph(glyph), Event::Empty(e)) if e.name() == b"image"
Image ==
    \E e \in vocabulary :
        /\ CanRead(e)
        /\ Arm(state, e) = "Image"
        /\ Pull(e)
        /\ opened' = Opened(opened, e)
        /\ IF IsSome(glyph.image) THEN Fail("DuplicateElement")
           ELSE LET image == parse_image(e.attrs)
                IN  IF image.err # "" THEN Fail(image.err)
                    ELSE /\ glyph' = [glyph EXCEPT !.image = Some(image.val)]
                         /\ UNCHANGED << state, result >>
        /\ UNCHANGED << identifier_set, seen_advance, seen_lib >>

\* (State::Glyph(glyph), Event::End(e)) if e.name() == b"glyph"
EndGlyph ==
    \E e \in vocabulary :
        /\ CanRead(e)
        /\ Arm(state, e) = "EndGlyph"
        /\ Pull(e)
        /\ opened' = Opened(opened, e)
        /\ state' = "Done"
        /\ UNCHANGED << glyph, identifier_set, seen_advance, seen_lib,
                        result >>

\* Finish without the State::Done pattern: end of file ends the parse in
\* Ok whatever the state.
FinishAnyState ==
    \E e \in vocabulary :
        /\ CanRead(e)
        /\ e.kind = "Eof"
        /\ Pull(e)
        /\ opened' = Opened(opened, e)
        /\ result' = "Ok"
        /\ UNCHANGED << state, glyph, identifier_set, seen_advance,
                        seen_lib >>

\* (State::Done(glyph), Event::Eof) => return Ok(glyph)
Finish ==
    \E e \in vocabulary :
        /\ CanRead(e)
        /\ Arm(state, e) = "Finish"
        /\ Pull(e)
        /\ opened' = Opened(opened, e)
        /\ result' = "Ok"
        /\ UNCHANGED << state, glyph, identifier_set, seen_advance,
                        seen_lib >>

\* TrailingData for element events alone: text after the closing glyph
\* tag passes.
TrailingDataElementsOnly ==
    \E e \in vocabulary :
        /\ CanRead(e)
        /\ Arm(state, e) = "TrailingData"
        /\ Pull(e)
        /\ opened' = Opened(opened, e)
        /\ IF e.kind \in {"Start", "Empty", "End"} THEN Fail("TrailingData")
           ELSE UNCHANGED << state, glyph, result >>
        /\ UNCHANGED << identifier_set, seen_advance, seen_lib >>

\* (State::Done(_), _) => return Err(TrailingData)
TrailingData ==
    \E e \in vocabulary :
        /\ CanRead(e)
        /\ Arm(state, e) = "TrailingData"
        /\ Pull(e)
        /\ opened' = Opened(opened, e)
        /\ Fail("TrailingData")
        /\ UNCHANGED << identifier_set, seen_advance, seen_lib >>

\* UnexpectedEof without its return: end of file falls through to the
\* catch-all arm.
UnexpectedEofIgnored ==
    \E e \in vocabulary :
        /\ CanRead(e)
        /\ Arm(state, e) = "UnexpectedEof"
        /\ Pull(e)
        /\ opened' = Opened(opened, e)
        /\ UNCHANGED << state, glyph, identifier_set, seen_advance, seen_lib,
                        result >>

\* (_, Event::Eof) => return Err(UnexpectedEof)
UnexpectedEof ==
    \E e \in vocabulary :
        /\ CanRead(e)
        /\ Arm(state, e) = "UnexpectedEof"
        /\ Pull(e)
        /\ opened' = Opened(opened, e)
        /\ Fail("UnexpectedEof")
        /\ UNCHANGED << identifier_set, seen_advance, seen_lib >>

\* The catch-all arm erroring out on an element, as its TODO asks.
PassThroughElementsRefused ==
    \E e \in vocabulary :
        /\ CanRead(e)
        /\ Arm(state, e) = "PassThrough"
        /\ Pull(e)
        /\ opened' = Opened(opened, e)
        /\ IF e.kind \in {"Start", "Empty"} THEN Fail("UnexpectedElement")
           ELSE UNCHANGED << state, glyph, result >>
        /\ UNCHANGED << identifier_set, seen_advance, seen_lib >>

\* (state, _) => state
PassThrough ==
    \E e \in vocabulary :
        /\ CanRead(e)
        /\ Arm(state, e) = "PassThrough"
        /\ Pull(e)
        /\ opened' = Opened(opened, e)
        /\ UNCHANGED << state, glyph, identifier_set, seen_advance, seen_lib,
                        result >>

Next ==
    \/ XmlError
    \/ Comment
    \/ Decl
    \/ StartGlyph
    \/ WrongFirstElement
    \/ Unicode
    \/ Anchor
    \/ Guideline
    \/ Advance
    \/ Note
    \/ Lib
    \/ Image
    \/ EndGlyph
    \/ Finish
    \/ TrailingData
    \/ UnexpectedEof
    \/ PassThrough

Spec == Init /\ [][Next]_vars

\* ------------------------------------------ two calls on one input buffer
\* Input buffers given whole to parse_glif, each ending where the reader
\* reports end of file.
Documents ==
    { << GlyphV2,
         EmptyEv("anchor", << Attr("x", "74"), Attr("y", "197"),
                              Attr("identifier", "i1") >>),
         EmptyEv("advance", << Attr("height", "123"), Attr("width", "268") >>),
         StartEv("lib", << >>), StartEv("dict", << >>), StartEv("key", << >>),
         TextEv("k"), EndEv("key"), EmptyEv("true", << >>), EndEv("dict"),
         EndEv("lib"),
         EndEv("glyph"), EofEv >>,
      << DeclEv, CommentEv, GlyphV2,
         EmptyEv("unicode", << Attr("hex", "002E") >>),
         EmptyEv("guideline", << Attr("x", "74"), Attr("identifier", "i1") >>),
         EndEv("glyph"), EofEv >>,
      << GlyphV2, StartEv("note", << >>), TextEv("I am a note."),
         EndEv("note"),
         EmptyEv("image", << Attr("fileName", "sketch.png") >>),
         StartEv("outline", << >>), EndEv("outline"), EndEv("glyph"),
         EofEv >>,
      << GlyphV2, StartEv("lib", << >>), StartEv("lib", << >>), EndEv("lib"),
         EndEv("lib"), EndEv("glyph"), EofEv >>,
      << GlyphV2, StartEv("lib", << >>), EmptyEv("dict", << >>),
         EndEv("lib"), StartEv("lib", << >>), EmptyEv("dict", << >>),
         EndEv("lib"), EndEv("glyph"), EofEv >>,
      << GlyphV2, StartEv("lib", << >>), EmptyEv("array", << >>),
         EndEv("lib"), EndEv("glyph"), EofEv >>,
      << GlyphV2, StartEv("lib", << >>), TextEv("t"), EofEv >>,
      << GlyphV2, StartEv("note", << >>), CommentEv, EndEv("note"),
         EndEv("glyph"), EofEv >>,
      << EmptyEv("unicode", << Attr("hex", "002E") >>), EofEv >>,
      << GlyphV2, EndEv("glyph"), TextEv("t"), EofEv >>,
      << GlyphV2, EmptyEv("unicode", << Attr("hex", "002E") >>), EofEv >>,
      << EndEv("glyph"), EofEv >>,
      << GlyphV2,
         EmptyEv("anchor", << Attr("x", "74"), Attr("y", "197"),
                              Attr("identifier", "i1") >>),
         EmptyEv("guideline", << Attr("x", "74"), Attr("identifier", "i1") >>),
         EndEv("glyph"), EofEv >>,
      << GlyphV2,
         EmptyEv("advance", << Attr("height", "123"), Attr("width", "268") >>),
         EmptyEv("advance", << Attr("height", "123"), Attr("width", "268") >>),
         EndEv("glyph"), EofEv >>,
      << TextEv("t"), GlyphV2, EndEv("glyph"), CommentEv, EofEv >>,
      << GlyphV1,
         EmptyEv("anchor", << Attr("x", "74"), Attr("y", "197"),
                              Attr("identifier", "i1") >>),
         EndEv("glyph"), EofEv >> }

\* The first call of parse_glif on one of the buffers.
InitDocument ==
    /\ xml \in Documents
    /\ vocabulary = { xml[i] : i \in 1 .. Len(xml) }
    /\ run = 1
    /\ Entry
    /\ snapshot = Reached

\* Restart with the registry kept from the first call, as a static
\* would be.
RestartKeepingRegistry ==
    /\ run = 1
    /\ steps > 0
    /\ run' = 2
    /\ snapshot' = Reached
    /\ UNCHANGED << vocabulary, xml >>
    /\ state' = "Start"
    /\ glyph' = GlyphNewNamed("")
    /\ UNCHANGED identifier_set
    /\ seen_advance' = FALSE
    /\ seen_lib' = FALSE
    /\ opened' = << >>
    /\ pos' = 0
    /\ steps' = 0
    /\ event' = NoEvent
    /\ result' = "Running"
    /\ plist_slice' = NoSlice
    /\ first_element' = None
    /\ child_count' = [n \in Single |-> 0]
    /\ recognised' = [n \in Single |-> 0]
    /\ doc_identifiers' = {}
    /\ dup_identifier' = FALSE
    /\ list_events' = << >>
    /\ top_level' = << >>

\* parse_glif is called a second time on the same buffer, while the first
\* call is running or after it returned: the second call has its own
\* reader and its own locals, set as on every entry.
Restart ==
    /\ run = 1
    /\ steps > 0
    /\ run' = 2
    /\ snapshot' = Reached
    /\ UNCHANGED << vocabulary, xml >>
    /\ state' = "Start"
    /\ glyph' = GlyphNewNamed("")
    /\ identifier_set' = {}
    /\ seen_advance' = FALSE
    /\ seen_lib' = FALSE
    /\ opened' = << >>
    /\ pos' = 0
    /\ steps' = 0
    /\ event' = NoEvent
    /\ result' = "Running"
    /\ plist_slice' = NoSlice
    /\ first_element' = None
    /\ child_count' = [n \in Single |-> 0]
    /\ recognised' = [n \in Single |-> 0]
    /\ doc_identifiers' = {}
    /\ dup_identifier' = FALSE
    /\ list_events' = << >>
    /\ top_level' = << >>

NextDocument == Next \/ Restart

SpecDocument == InitDocument /\ [][NextDocument]_vars

\* The same with the loop of a call that has not returned always taking
\* its next iteration.
SpecTermination ==
    InitDocument /\ [][NextDocument]_vars /\ WF_vars(Next)

\* ------------------------------------------------------------ properties
\* This step is an iteration of the driver loop whose read yielded an
\* event.
Pulled == steps' = steps + 1 /\ event' # NoEvent

\* This step pulled an opening or self-closing tag.
PulledElement == Pulled /\ event'.kind \in {"Start", "Empty"}

\* The value of attribute key of event e (e has it).
AttrValue(e, key) ==
    Value(e.attrs[CHOOSE i \in 1 .. Len(e.attrs) : Key(e.attrs[i]) = key])
HasAttr(e, key) == \E i \in 1 .. Len(e.attrs) : Key(e.attrs[i]) = key

\* C1: the parse ends in Ok only by pulling end of file in state Done;
\* the state becomes Done only from Glyph, by the closing glyph tag, and
\* becomes Glyph only from Start, by an opening glyph tag.
C1_OkOnlyFromDone ==
    [][/\ (result' = "Ok" /\ result # "Ok")
           => (state = "Done" /\ Pulled /\ event'.kind = "Eof")
       /\ (state' = "Done" /\ state # "Done")
           => (state = "Glyph" /\ Pulled /\ event' = EndEv("glyph"))
       /\ (state' = "Glyph" /\ state # "Glyph")
           => (state = "Start" /\ Pulled /\ event'.kind = "Start"
               /\ event'.name = "glyph")]_vars

C1_Witness == result = "Ok" /\ state = "Done" /\ event = EofEv

\* C2: end of file pulled in state Start or Glyph ends the parse in
\* UnexpectedEof.
C2_EofBeforeDone ==
    [][(Pulled /\ event'.kind = "Eof" /\ state \in {"Start", "Glyph"})
           => result' = "UnexpectedEof"]_vars

C2_Witness == result = "UnexpectedEof" /\ state = "Glyph" /\ event = EofEv

\* C3: in state Start an opening or self-closing tag other than glyph ends
\* the parse in WrongFirstElement, and so does the first element of a
\* document when it is not glyph.
C3_WrongFirstElement ==
    [][/\ (PulledElement /\ state = "Start" /\ event'.name # "glyph")
           => result' = "WrongFirstElement"
       /\ (PulledElement /\ first_element = None /\ event'.name # "glyph")
           => result' = "WrongFirstElement"]_vars

C3_Witness ==
    /\ result = "WrongFirstElement"
    /\ first_element = Some(<< "Empty", "unicode" >>)

\* C4 (as claimed): in state Start a glyph tag with a valid header,
\* opening or self-closing, moves the driver to Glyph.
C4_GlyphTagEntersGlyph ==
    [][(PulledElement /\ state = "Start" /\ event'.name = "glyph"
        /\ parse_glyph(event'.attrs).err = "")
           => (state' = "Glyph" /\ result' = "Running")]_vars

\* C5 (as claimed): in state Done every event other than end of file ends
\* the parse in TrailingData.
C5_AnyEventAfterDone ==
    [][(Pulled /\ state = "Done" /\ event'.kind # "Eof")
           => result' = "TrailingData"]_vars

\* C5 (amended): in state Done every event other than end of file, a
\* comment or a declaration ends the parse in TrailingData.
C5_TrailingData ==
    [][(Pulled /\ state = "Done"
        /\ event'.kind \notin {"Eof", "Comment", "Decl"})
           => result' = "TrailingData"]_vars

C5_Witness ==
    /\ result = "TrailingData"
    /\ state = "Done"
    /\ event = EmptyEv("unicode", << Attr("hex", "002E") >>)

\* C6: in state Glyph the second recognised occurrence of advance, image,
\* note or lib ends the parse in DuplicateElement, whatever came between
\* the two; the first occurrence never does.
C6_DuplicateElement ==
    [][\A n \in Single :
           recognised'[n] # recognised[n]
               => /\ recognised[n] = 1 => result' = "DuplicateElement"
                  /\ recognised[n] = 0 => result' # "DuplicateElement"]_vars

C6_Witness ==
    /\ recognised["advance"] = 2
    /\ result = "DuplicateElement"
    /\ steps > 3

\* C7 (as claimed): an accepted document has at most one advance, one
\* lib, one note and one image among the children of its glyph element,
\* in either syntactic form.
C7_AtMostOneEach ==
    result = "Ok" => \A n \in Single : child_count[n] <= 1

\* C8 (as claimed): a format 2 document in which two elements carry the
\* same identifier is rejected (with DuplicateIdentifier): no parse that
\* has seen two such elements ends in Ok.
C8_DuplicateIdentifier ==
    (glyph.format = "V2" /\ dup_identifier) => result # "Ok"

\* C9 (as claimed): a format 1 document in which an element carries an
\* identifier is rejected (with UnexpectedAttribute): no parse that has
\* seen such an element ends in Ok.
C9_IdentifierUnderV1 ==
    (glyph.format = "V1" /\ doc_identifiers # {}) => result # "Ok"

\* The errors an attribute of a guideline can end the parse in.
AttributeErrors ==
    {"InvalidNumber", "InvalidAngle", "InvalidColor", "UnexpectedAttribute",
     "BadIdentifier", "DuplicateIdentifier"}

\* C10: a guideline whose attributes all parse is decided by which of x,
\* y and angle it has: x alone is Vertical(x), y alone is Horizontal(y),
\* all three are Angle(x, y, angle), and each other pattern ends the
\* parse in InvalidGuideline.
C10_GuidelineShape ==
    [][(Pulled /\ state = "Glyph" /\ event'.kind = "Empty"
        /\ event'.name = "guideline" /\ result' \notin AttributeErrors)
           => LET e == event'
                  hasX == HasAttr(e, "x")
                  hasY == HasAttr(e, "y")
                  hasAngle == HasAttr(e, "angle")
                  line == glyph'.guidelines[Len(glyph'.guidelines)].line
                  Built == /\ result' = "Running"
                           /\ Len(glyph'.guidelines)
                                  = Len(glyph.guidelines) + 1
              IN  IF hasX /\ ~hasY /\ ~hasAngle
                  THEN Built /\ line = LineVertical(
                                          Unwrap(ParseFloat(AttrValue(e, "x"))))
                  ELSE IF ~hasX /\ hasY /\ ~hasAngle
                  THEN Built /\ line = LineHorizontal(
                                          Unwrap(ParseFloat(AttrValue(e, "y"))))
                  ELSE IF hasX /\ hasY /\ hasAngle
                  THEN Built /\ line = LineAngle(
                                  Unwrap(ParseFloat(AttrValue(e, "x"))),
                                  Unwrap(ParseFloat(AttrValue(e, "y"))),
                                  Unwrap(ParseFloat(AttrValue(e, "angle"))))
                  ELSE result' = "InvalidGuideline"]_vars

C10_Witness ==
    /\ result = "InvalidGuideline"
    /\ event = EmptyEv("guideline", << Attr("y", "-12"), Attr("angle", "30") >>)

\* The position of attribute key in the attributes of event e (e has it).
AttrIndex(e, key) ==
    CHOOSE i \in 1 .. Len(e.attrs) : Key(e.attrs[i]) = key

\* Every attribute of e before attribute key is a coordinate that parses.
AfterCoordinates(e, key) ==
    \A i \in 1 .. AttrIndex(e, key) - 1 :
        /\ Key(e.attrs[i]) \in {"x", "y"}
        /\ IsSome(ParseFloat(Value(e.attrs[i])))

\* C11: a guideline whose angle attribute is a number, read after nothing
\* but coordinates that parse, ends the parse in InvalidAngle when the
\* number is below 0 or above 360, and never in InvalidAngle when it lies
\* in [0, 360], both ends included.
C11_AngleRange ==
    [][(Pulled /\ state = "Glyph" /\ event'.kind = "Empty"
        /\ event'.name = "guideline" /\ HasAttr(event', "angle")
        /\ IsSome(ParseFloat(AttrValue(event', "angle")))
        /\ AfterCoordinates(event', "angle"))
           => LET angle == Unwrap(ParseFloat(AttrValue(event', "angle")))
              IN  (result' = "InvalidAngle") <=> (angle < 0 \/ angle > 3600)
      ]_vars

\* The angle 360 is accepted: a guideline with all of x, y and angle 360
\* is in the glyph.
C11_Witness ==
    /\ result = "Running"
    /\ event = EmptyEv("guideline", << Attr("x", "74"), Attr("y", "-12"),
                                      Attr("angle", "360") >>)
    /\ glyph.guidelines # << >>
    /\ glyph.guidelines[Len(glyph.guidelines)].line
           = LineAngle(740, -120, 3600)

\* The attributes the glyph header may carry.
HeaderKeys == {"name", "format", "formatMinor"}

\* Attribute a is one the header builder refuses when it reads it.
HeaderAttrFails(a) ==
    \/ Key(a) \notin HeaderKeys
    \/ Key(a) = "format" /\ Value(a) \notin {"1", "2"}
    \/ Key(a) = "formatMinor" /\ ~IsSome(ParseU32(Value(a)))

\* The error of a refused header attribute.
HeaderAttrError(a) ==
    IF Key(a) = "format" THEN "UnsupportedGlifVersion"
    ELSE IF Key(a) = "formatMinor" THEN "InvalidInteger"
    ELSE "UnexpectedAttribute"

\* This step pulled the opening glyph tag in state Start.
PulledHeader ==
    Pulled /\ state = "Start" /\ event'.kind = "Start"
           /\ event'.name = "glyph"

\* C12 as stated: the opening glyph tag is accepted exactly when its
\* attributes are among name, format and formatMinor, name is present and
\* not empty and format is "1" or "2".
C12_HeaderAcceptedExactly ==
    [][PulledHeader
           => LET e == event'
              IN  (state' = "Glyph" /\ result' = "Running")
                      <=> /\ \A i \in 1 .. Len(e.attrs) :
                                 Key(e.attrs[i]) \in HeaderKeys
                          /\ HasAttr(e, "name") /\ AttrValue(e, "name") # ""
                          /\ HasAttr(e, "format")
                          /\ AttrValue(e, "format") \in {"1", "2"}
      ]_vars

\* C12, amended: the error of the opening glyph tag is that of its first
\* refused attribute (format not "1" or "2": UnsupportedGlifVersion;
\* formatMinor not an unsigned integer: InvalidInteger; any other name:
\* UnexpectedAttribute); with no refused attribute, a missing or empty
\* name or a missing format is InvalidGlyph; otherwise the tag is accepted
\* with its name and format, and formatMinor 0 when absent.
C12_Header ==
    [][PulledHeader
           => LET e == event'
                  refused == { i \in 1 .. Len(e.attrs) :
                                   HeaderAttrFails(e.attrs[i]) }
              IN  IF refused # {}
                  THEN LET first == CHOOSE i \in refused :
                                        \A j \in refused : i <= j
                       IN  /\ result' = HeaderAttrError(e.attrs[first])
                           /\ state' = "Start"
                  ELSE IF \/ ~HasAttr(e, "name") \/ ~HasAttr(e, "format")
                  THEN result' = "InvalidGlyph" /\ state' = "Start"
                  ELSE IF AttrValue(e, "name") = ""
                  THEN result' = "InvalidGlyph" /\ state' = "Start"
                  ELSE /\ result' = "Running"
                       /\ state' = "Glyph"
                       /\ glyph'.name = AttrValue(e, "name")
                       /\ glyph'.format =
                              (IF AttrValue(e, "format") = "1" THEN "V1"
                               ELSE "V2")
                       /\ glyph'.format_minor =
                              (IF HasAttr(e, "formatMinor")
                               THEN Unwrap(ParseU32(AttrValue(e, "formatMinor")))
                               ELSE 0)
      ]_vars

\* A header whose three attributes are allowed, with a name and format 2,
\* is refused for its formatMinor.
C12_Witness ==
    /\ result = "InvalidInteger"
    /\ state = "Start"
    /\ event = StartEv("glyph", << Attr("name", "a"), Attr("format", "2"),
                                   Attr("formatMinor", "x") >>)

\* Event e is an element the driver has a builder or a cardinality check
\* for in state Glyph.
Checked(e) ==
    \/ e.kind = "Empty"
         /\ e.name \in {"unicode", "anchor", "guideline", "advance", "image"}
    \/ e.kind = "Start" /\ e.name \in {"note", "lib"}

\* The error the source gives for some elements that break a rule, ""
\* for the others.
Violation(e) ==
    CASE e = EmptyEv("unicode", << Attr("hex", "D800") >>)
             -> "InvalidCodepoint"
      [] e = EmptyEv("unicode", << >>) -> "InvalidUnicode"
      [] e = EmptyEv("anchor", << Attr("x", "74") >>) -> "InvalidAnchor"
      [] e = EmptyEv("guideline", << >>) -> "InvalidGuideline"
      [] e = EmptyEv("guideline", << Attr("x", "seven") >>) -> "InvalidNumber"
      [] e = EmptyEv("advance", << Attr("width", "wide") >>)
             -> "InvalidNumber"
      [] e = EmptyEv("image", << Attr("xScale", "0") >>) -> "InvalidImage"
      [] OTHER -> ""

\* C13: the first violation ends the parse. No step is taken once an
\* outcome is returned; an element the driver checks is either folded into
\* the glyph or the seen flags, or ends the parse in an error; an element
\* that breaks a rule ends it in that rule's error (or, when it is a
\* second advance or image, in DuplicateElement, which is checked first);
\* and the step that ends the parse in an error leaves the state and the
\* glyph as they were.
C13_FirstViolationAborts ==
    [][/\ result = "Running"
       /\ (Pulled /\ state = "Glyph" /\ Checked(event'))
              => \/ result' \notin {"Running", "Ok"}
                 \/ << glyph, seen_advance, seen_lib >>'
                        # << glyph, seen_advance, seen_lib >>
       /\ (Pulled /\ state = "Glyph" /\ Violation(event') # "")
              => result' \in {Violation(event'), "DuplicateElement"}
       /\ result' \notin {"Running", "Ok"}
              => state' = state /\ glyph' = glyph
      ]_vars

\* A codepoint was accepted and the next unicode element was refused.
C13_Witness ==
    /\ result = "InvalidCodepoint"
    /\ state = "Glyph"
    /\ Len(glyph.codepoints) = 1
    /\ steps < MaxSteps

\* Attribute key of event e as an option, as text and as a number.
OptAttr(e, key) == IF HasAttr(e, key) THEN Some(AttrValue(e, key)) ELSE None
OptNumber(e, key) ==
    IF HasAttr(e, key) THEN ParseFloat(AttrValue(e, key)) ELSE None
OptColor(e) ==
    IF HasAttr(e, "color") THEN Some(parse_color(AttrValue(e, "color")).val)
    ELSE None

\* The values an accepted unicode, anchor or guideline event stands for.
CodepointOf(e) == Unwrap(FromStrRadix16(AttrValue(e, "hex")))
AnchorOf(e) ==
    AnchorNew(Unwrap(OptNumber(e, "x")), Unwrap(OptNumber(e, "y")),
              OptAttr(e, "name"), OptColor(e), OptAttr(e, "identifier"))
GuidelineOf(e) ==
    GuidelineNew(IF HasAttr(e, "angle")
                 THEN LineAngle(Unwrap(OptNumber(e, "x")),
                                Unwrap(OptNumber(e, "y")),
                                Unwrap(OptNumber(e, "angle")))
                 ELSE IF HasAttr(e, "x")
                 THEN LineVertical(Unwrap(OptNumber(e, "x")))
                 ELSE LineHorizontal(Unwrap(OptNumber(e, "y"))),
                 OptAttr(e, "name"), OptColor(e), OptAttr(e, "identifier"))

IsUnicode(e) == e.name = "unicode"
IsAnchor(e) == e.name = "anchor"
IsGuideline(e) == e.name = "guideline"

\* C14: in an accepted document the codepoints, the anchors and the
\* guidelines of the glyph are the values of the unicode, anchor and
\* guideline events the driver pulled, each list in the order of the
\* document, a repeated codepoint kept.
C14_ListsInDocumentOrder ==
    result = "Ok"
        => LET unicodes == SelectSeq(list_events, IsUnicode)
               anchors == SelectSeq(list_events, IsAnchor)
               guidelines == SelectSeq(list_events, IsGuideline)
           IN  /\ glyph.codepoints =
                      [i \in 1 .. Len(unicodes) |-> CodepointOf(unicodes[i])]
               /\ glyph.anchors =
                      [i \in 1 .. Len(anchors) |-> AnchorOf(anchors[i])]
               /\ glyph.guidelines =
                      [i \in 1 .. Len(guidelines) |->
                           GuidelineOf(guidelines[i])]

\* An accepted document with the same codepoint twice and two different
\* anchors, interleaved with the codepoints or not.
C14_Witness ==
    /\ result = "Ok"
    /\ glyph.codepoints = << 46, 46 >>
    /\ Len(glyph.anchors) = 2
    /\ glyph.anchors[1] # glyph.anchors[2]

LibDepth(slice, k) ==
    Cardinality({ i \in 1 .. k : slice[i] = StartEv("lib", << >>) })
        - Cardinality({ i \in 1 .. k : slice[i] = EndEv("lib") })

\* C16: when the driver pulls a first opening lib tag in state Glyph and
\* its closing tag is found, what the dictionary parser is given is the
\* buffer from the offset after the opening tag to the offset after the
\* closing tag that matches it, event for event, and the reader is left
\* at that end offset with the driver still in state Glyph.
C16_LibSlice ==
    [][(Pulled /\ state = "Glyph" /\ event' = StartEv("lib", << >>)
        /\ ~seen_lib /\ result' # "Xml")
           => LET start == pos + 1
                  end == pos'
                  slice == SubSeq(xml, start + 1, end)
              IN  /\ xml[start] = event'
                  /\ plist_slice' =
                         [start |-> start, end |-> end, events |-> slice]
                  /\ LibDepth(slice, Len(slice)) = -1
                  /\ \A k \in 0 .. Len(slice) - 1 : LibDepth(slice, k) >= 0
                  /\ state' = "Glyph"
      ]_vars

\* The lib of the first buffer was read: seven events, from offset 4 to
\* offset 11, and the dictionary has its key.
C16_Witness ==
    /\ result = "Running"
    /\ state = "Glyph"
    /\ pos = 11
    /\ plist_slice.start = 4
    /\ plist_slice.end = 11
    /\ Len(plist_slice.events) = 7
    /\ glyph.lib = {"k"}

\* C17: an accepted document has the glyph element at its top level and
\* no other element or text there, before it or after it.
C17_OnlyGlyphAtTopLevel ==
    result = "Ok" => top_level = << "glyph" >>

\* This step pulled, in state Glyph, an anchor or a guideline whose first
\* attribute is an identifier: parse_identifier is the first check made.
PulledIdentifierFirst ==
    /\ Pulled /\ state = "Glyph" /\ event'.kind = "Empty"
    /\ event'.name \in {"anchor", "guideline"}
    /\ event'.attrs # << >>
    /\ Key(event'.attrs[1]) = "identifier"

\* The identifier of the element the step added to the glyph.
AddedIdentifier ==
    IF event'.name = "anchor"
    THEN glyph'.anchors[Len(glyph'.anchors)].identifier
    ELSE glyph'.guidelines[Len(glyph'.guidelines)].identifier

\* C18: parse_identifier checks in this order: under V1 it fails with
\* UnexpectedAttribute whatever the candidate; else an ill-formed
\* candidate fails with BadIdentifier; else a candidate in the registry
\* fails with DuplicateIdentifier; else the candidate is inserted and is
\* the identifier of the element, if the rest of the element builds.  The
\* registry is unchanged when parse_identifier fails.
C18_RegisterOrder ==
    [][PulledIdentifierFirst
           => LET candidate == Value(event'.attrs[1])
              IN  IF glyph.format = "V1"
                  THEN /\ result' = "UnexpectedAttribute"
                       /\ identifier_set' = identifier_set
                  ELSE IF ~IsSome(IdentifierNew(candidate))
                  THEN /\ result' = "BadIdentifier"
                       /\ identifier_set' = identifier_set
                  ELSE IF candidate \in identifier_set
                  THEN /\ result' = "DuplicateIdentifier"
                       /\ identifier_set' = identifier_set
                  ELSE /\ identifier_set' = identifier_set \cup {candidate}
                       /\ result' \notin {"BadIdentifier",
                                          "DuplicateIdentifier"}
                       /\ result' = "Running"
                              => AddedIdentifier = Some(candidate)
      ]_vars

\* Under V1 an ill-formed identifier was refused as an attribute that
\* format 1 does not have.
C18_Witness ==
    /\ result = "UnexpectedAttribute"
    /\ glyph.format = "V1"
    /\ state = "Glyph"
    /\ event = EmptyEv("anchor", << Attr("identifier", "bad\n"),
                                   Attr("x", "74"), Attr("y", "197") >>)

\* The anchors and the guidelines of the glyph that carry an identifier,
\* as pairs of list and position.
Carriers ==
    { << "anchor", i >> : i \in { j \in 1 .. Len(glyph.anchors) :
                                      IsSome(glyph.anchors[j].identifier) } }
        \cup { << "guideline", i >> :
                   i \in { j \in 1 .. Len(glyph.guidelines) :
                               IsSome(glyph.guidelines[j].identifier) } }

\* The identifier of a carrier.
Carried(c) ==
    IF c[1] = "anchor" THEN Unwrap(glyph.anchors[c[2]].identifier)
    ELSE Unwrap(glyph.guidelines[c[2]].identifier)

\* The registry of a parse: empty before the first event; the
\* identifiers of the glyph's anchors and guidelines are in it, no two of
\* them equal; while no error is returned they are all it holds, and the
\* one more it may hold after an error is the identifier of the element
\* that failed.
RegistryInvariant ==
    /\ steps = 0 => identifier_set = {}
    /\ \A c \in Carriers : Carried(c) \in identifier_set
    /\ \A c, d \in Carriers : Carried(c) = Carried(d) => c = d
    /\ result \in {"Running", "Ok"}
           => identifier_set = { Carried(c) : c \in Carriers }
    /\ identifier_set \subseteq
           { Carried(c) : c \in Carriers }
               \cup { IdentifierOf(event)[i] :
                          i \in 1 .. Len(IdentifierOf(event)) }

\* C19: the registry is empty at the start of the parse, never loses an
\* identifier, holds exactly the identifiers accepted so far, and the
\* identifiers of the anchors and guidelines of the glyph are pairwise
\* distinct members of it.
C19_Registry ==
    /\ []RegistryInvariant
    /\ [][identifier_set \subseteq identifier_set']_vars

\* An accepted glyph with an anchor and a guideline that carry two
\* identifiers, both in the registry.
C19_Witness ==
    /\ result = "Ok"
    /\ Cardinality(identifier_set) = 2
    /\ \E c, d \in Carriers : c[1] = "anchor" /\ d[1] = "guideline"

\* C20: a comment or a declaration pulled by the driver, in whichever
\* state, leaves the state, the glyph, the registry and the seen flags as
\* they were and the parse running.
C20_CommentDeclTransparent ==
    [][(Pulled /\ event'.kind \in {"Comment", "Decl"})
           => /\ UNCHANGED << state, glyph, identifier_set, seen_advance,
                              seen_lib >>
              /\ result' = "Running"
      ]_vars

\* A comment was pulled after the closing glyph tag and the parse goes on.
C20_Witness ==
    /\ state = "Done"
    /\ event = CommentEv
    /\ result = "Running"

\* The outcomes that are no error of the parser's own: the parse goes on,
\* or the tokenizer failed.
NoSemanticError == {"Running", "Xml"}

\* C21: an event pulled while an outline element is open (end of file
\* apart) leaves the glyph, the registry and the seen flags as they were
\* and ends the parse in no error of the parser's own.
C21_OutlineIgnored ==
    [][(Pulled /\ event'.kind # "Eof"
        /\ \E i \in 1 .. Len(opened) : opened[i] = "outline")
           => /\ UNCHANGED << glyph, identifier_set, seen_advance, seen_lib >>
              /\ result' \in NoSemanticError
      ]_vars

\* The (state, event) combinations the driver has a transition for: a
\* comment or a declaration, end of file, any element in Start, and in
\* Glyph the recognised form of each known element and the closing glyph
\* tag.
Listed(s, e) ==
    \/ e.kind \in {"Comment", "Decl", "Eof"}
    \/ s = "Start" /\ e.kind \in {"Start", "Empty"}
    \/ s = "Glyph" /\ e.kind = "Empty"
         /\ e.name \in {"unicode", "anchor", "guideline", "advance", "image"}
    \/ s = "Glyph" /\ e.kind = "Start" /\ e.name \in {"note", "lib"}
    \/ s = "Glyph" /\ e.kind = "End" /\ e.name = "glyph"

PulledImageWithIdentifier ==
    /\ Pulled /\ state = "Glyph" /\ ~IsSome(glyph.image)
    /\ event'.kind = "Empty" /\ event'.name = "image"
    /\ HasAttr(event', "identifier") /\ HasAttr(event', "fileName")
    /\ \A i \in 1 .. Len(event'.attrs) :
           Key(event'.attrs[i]) \in {"identifier", "fileName"}

\* C23 as stated: a first image with a fileName and an identifier is
\* accepted.
C23_ImageIdentifierAccepted ==
    [][PulledImageWithIdentifier
           => result' = "Running" /\ IsSome(glyph'.image)]_vars

\* C23, amended: a first image with a fileName and an identifier ends the
\* parse in UnexpectedAttribute, under either format; the glyph gets no
\* image and the identifier is not registered.
C23_ImageIdentifierRefused ==
    [][PulledImageWithIdentifier
           => /\ result' = "UnexpectedAttribute"
              /\ UNCHANGED << state, glyph, identifier_set >>
      ]_vars

\* An image with a fileName and an identifier was refused in a format 2
\* glyph with an empty registry.
C23_Witness ==
    /\ result = "UnexpectedAttribute"
    /\ state = "Glyph"
    /\ glyph.format = "V2"
    /\ glyph.image = None
    /\ identifier_set = {}
    /\ event = EmptyEv("image", << Attr("fileName", "sketch.png"),
                                  Attr("identifier", "i1") >>)

\* C24: on a buffer that ends with end of file, a call that is running
\* returns in the end; every iteration of the loop moves the reader
\* forward, so no event is read twice; and end of file pulled by the
\* driver ends the loop, in Ok from Done and in UnexpectedEof otherwise.
C24_Returns ==
    /\ (result = "Running") ~> (result # "Running")
    /\ [][steps' = steps + 1 => pos' > pos]_vars
    /\ [][(Pulled /\ event'.kind = "Eof")
              => result' = (IF state = "Done" THEN "Ok"
                            ELSE "UnexpectedEof")]_vars

\* A call read its buffer to the end and returned Ok on end of file.
C24_Witness ==
    /\ result = "Ok"
    /\ event = EofEv
    /\ pos = Len(xml)
    /\ xml # << >>

\* C25: the driver goes from Glyph to Done only on the closing tag of the
\* top-level glyph element, the one element then open.
C25_DoneAtTopLevelClose ==
    [][(Pulled /\ state = "Glyph" /\ state' = "Done")
           => opened = << "glyph" >>]_vars

====
